---------------------------- MODULE Spec2Model ----------------------------
(***************************************************************************)
(* Fleet Manager client of dataikuapi: the HTTP shim of FMClient, the      *)
(* instance / instance-settings-template builders and the resource handles.*)
(*                                                                         *)
(* Python values are modelled as follows.                                  *)
(*   str            a TLA+ string                                          *)
(*   a dict value   a sequence of strings: <<"str", s>>, <<"int", digits>>, *)
(*                  <<"None">>, <<"True">>, <<"False">>,                   *)
(*                  <<"list", s1, ..., sn>>, <<"dict", k, s>>,             *)
(*                  <<"FMInstanceEncryptionMode", value>>                  *)
(*   dict           a sequence of <<key, value>> pairs in insertion order   *)
(*   document       [ok, type, val]: a decoded JSON document, type being   *)
(*                  its Python type; ok = FALSE is None / not decodable    *)
(*   JSON text      a sequence of tokens (punctuation, quoted string       *)
(*                  literals, null/true/false, or raw non-JSON text)       *)
(* An operator that only takes the value of another as a parameter is the  *)
(* continuation of the operator that calls it.                             *)
(***************************************************************************)
EXTENDS Integers, Sequences, FiniteSets, TLC

\* ctor     the arguments the FMClient was constructed with
\* client   the FMClient object
\* builder  the creator object the program holds
\* handle   the resource handle the program holds
\* last     the call made last: the requests it issued, the responses they
\*          got, the exception it raised and what it returned
VARIABLES ctor, client, builder, handle, last

vars == <<ctor, client, builder, handle, last>>

----------------------------------------------------------------------------
(* Bounds of the model                                                     *)

\* number of with_* calls followed on one builder
MaxCalls == 2
\* length up to which add_setup_action grows a setupActions list
MaxActions == 2
\* number of polls a wait makes
MaxPolls == 3

----------------------------------------------------------------------------
(* Python values and dicts                                                 *)

PyStr(s) == <<"str", s>>
PyInt(n) == <<"int", n>>
PyNone == <<"None">>
PyTrue == <<"True">>
PyFalse == <<"False">>
PyList(xs) == <<"list">> \o xs
\* a dict of strings as a dict value, {k: s}
PyDict(k, s) == <<"dict", k, s>>
\* a member of the enum FMInstanceEncryptionMode
EncryptionMode(value) == <<"FMInstanceEncryptionMode", value>>

\* key in d
DictHas(d, k) == \E i \in DOMAIN d : d[i][1] = k

\* d[k]
DictGet(d, k) == d[CHOOSE i \in DOMAIN d : d[i][1] = k][2]

\* d.get(k, default)
DictGetDefault(d, k, default) == IF DictHas(d, k) THEN DictGet(d, k) ELSE default

\* d[k] = v : an existing key keeps its position, a new key goes last
DictSet(d, k, v) ==
    IF DictHas(d, k)
    THEN [i \in DOMAIN d |-> IF d[i][1] = k THEN <<k, v>> ELSE d[i]]
    ELSE Append(d, <<k, v>>)

DictKeys(d) == {d[i][1] : i \in DOMAIN d}

\* the mapping a dict denotes (what == on two dicts compares)
AsMap(d) == [k \in DictKeys(d) |-> DictGet(d, k)]

\* "%s" % v
Str(v) ==
    CASE v[1] = "str" -> v[2]
      [] v[1] = "int" -> v[2]
      [] v[1] = "list" -> "[...]"
      [] v[1] = "dict" -> "{...}"
      [] OTHER -> v[1]

----------------------------------------------------------------------------
(* JSON: json.dumps, Response.json(), Response.text                        *)

Quote(s) == "\"" \o s \o "\""

IsStrLit(tok) ==
    /\ Len(tok) >= 2
    /\ SubSeq(tok, 1, 1) = "\""
    /\ SubSeq(tok, Len(tok), Len(tok)) = "\""

Unquote(tok) == SubSeq(tok, 2, Len(tok) - 1)

RECURSIVE DumpsStrs(_)
DumpsStrs(xs) ==
    IF Len(xs) = 0 THEN <<>>
    ELSE <<Quote(Head(xs))>> \o (IF Len(xs) > 1 THEN <<",">> ELSE <<>>)
         \o DumpsStrs(Tail(xs))

DumpsValue(v) ==
    CASE v[1] = "str" -> <<Quote(v[2])>>
      [] v[1] = "int" -> <<v[2]>>
      [] v[1] = "None" -> <<"null">>
      [] v[1] = "True" -> <<"true">>
      [] v[1] = "False" -> <<"false">>
      [] v[1] = "list" -> <<"[">> \o DumpsStrs(Tail(v)) \o <<"]">>
      [] v[1] = "dict" -> <<"{", Quote(v[2]), ":", Quote(v[3]), "}">>

RECURSIVE DumpsPairs(_)
DumpsPairs(d) ==
    IF Len(d) = 0 THEN <<>>
    ELSE <<Quote(d[1][1]), ":">> \o DumpsValue(d[1][2])
         \o (IF Len(d) > 1 THEN <<",">> ELSE <<>>)
         \o DumpsPairs(Tail(d))

DumpsDict(d) == <<"{">> \o DumpsPairs(d) \o <<"}">>

RECURSIVE DumpsDicts(_)
DumpsDicts(ds) ==
    IF Len(ds) = 0 THEN <<>>
    ELSE DumpsDict(Head(ds)) \o (IF Len(ds) > 1 THEN <<",">> ELSE <<>>)
         \o DumpsDicts(Tail(ds))

\* the document that is the dict d
Doc(d) == [ok |-> TRUE, type |-> "dict", val |-> d]

\* no document: the ValueError of an undecodable body, and Python's None
\* where a call passes or returns no document
JsonError == [ok |-> FALSE, type |-> "none", val |-> <<>>]

\* doc is None
IsNone(doc) == ~doc.ok \/ (doc.type = "scalar" /\ doc.val = PyNone)

\* json.dumps(doc): the keys of a dict come out in insertion order
json_dumps(doc) ==
    CASE doc.type = "dict" -> DumpsDict(doc.val)
      [] doc.type = "list" -> <<"[">> \o DumpsDicts(doc.val) \o <<"]">>
      [] doc.type = "scalar" -> DumpsValue(doc.val)

ParseFail == [ok |-> FALSE, val |-> <<>>, rest |-> <<>>]

\* r with the value val in front of the values r parsed
Cons(val, r) == IF r.ok THEN [r EXCEPT !.val = <<val>> \o r.val] ELSE ParseFail

\* the string literals of a JSON array, after its "["
RECURSIVE ParseStrs(_)
ParseStrs(t) ==
    IF Len(t) < 2 \/ ~IsStrLit(t[1]) THEN ParseFail
    ELSE IF t[2] = "]"
         THEN [ok |-> TRUE, val |-> <<Unquote(t[1])>>, rest |-> SubSeq(t, 3, Len(t))]
    ELSE IF t[2] = "," THEN Cons(Unquote(t[1]), ParseStrs(SubSeq(t, 3, Len(t))))
    ELSE ParseFail

\* the list value of the strings r parsed
ListValue(r) == IF r.ok THEN [r EXCEPT !.val = PyList(r.val)] ELSE ParseFail

\* the value of an object member: a scalar or an array of strings
ParseValue(t) ==
    IF Len(t) = 0 THEN ParseFail
    ELSE IF IsStrLit(t[1]) THEN [ok |-> TRUE, val |-> PyStr(Unquote(t[1])), rest |-> Tail(t)]
    ELSE IF t[1] = "null" THEN [ok |-> TRUE, val |-> PyNone, rest |-> Tail(t)]
    ELSE IF t[1] = "true" THEN [ok |-> TRUE, val |-> PyTrue, rest |-> Tail(t)]
    ELSE IF t[1] = "false" THEN [ok |-> TRUE, val |-> PyFalse, rest |-> Tail(t)]
    ELSE IF t[1] = "["
         THEN IF Len(t) >= 2 /\ t[2] = "]"
              THEN [ok |-> TRUE, val |-> PyList(<<>>), rest |-> SubSeq(t, 3, Len(t))]
              ELSE ListValue(ParseStrs(Tail(t)))
    ELSE ParseFail

\* m, the members parsed after the member key: a later member of the same
\* key wins
ConsMember(key, val, m) ==
    IF ~m.ok THEN ParseFail
    ELSE IF DictHas(m.val, key) THEN m
    ELSE [m EXCEPT !.val = <<<<key, val>>>> \o m.val]

\* the members of a JSON object, after its "{"
RECURSIVE ParseMembers(_)

\* ... v being the value parsed for the member key
ParseMembersFrom(key, v) ==
    IF ~v.ok \/ Len(v.rest) = 0 THEN ParseFail
    ELSE IF v.rest[1] = "}"
         THEN [ok |-> TRUE, val |-> <<<<key, v.val>>>>, rest |-> Tail(v.rest)]
    ELSE IF v.rest[1] = "," THEN ConsMember(key, v.val, ParseMembers(Tail(v.rest)))
    ELSE ParseFail

ParseMembers(t) ==
    IF Len(t) < 4 \/ ~IsStrLit(t[1]) \/ t[2] # ":" THEN ParseFail
    ELSE ParseMembersFrom(Unquote(t[1]), ParseValue(SubSeq(t, 3, Len(t))))

ParseObject(t) ==
    IF Len(t) < 2 \/ t[1] # "{" THEN ParseFail
    ELSE IF t[2] = "}" THEN [ok |-> TRUE, val |-> <<>>, rest |-> SubSeq(t, 3, Len(t))]
    ELSE ParseMembers(Tail(t))

\* the objects of a JSON array, after its "["
RECURSIVE ParseObjects(_)

\* ... o being the first object parsed
ParseObjectsFrom(o) ==
    IF ~o.ok \/ Len(o.rest) = 0 THEN ParseFail
    ELSE IF o.rest[1] = "]"
         THEN [ok |-> TRUE, val |-> <<o.val>>, rest |-> Tail(o.rest)]
    ELSE IF o.rest[1] = "," THEN Cons(o.val, ParseObjects(Tail(o.rest)))
    ELSE ParseFail

ParseObjects(t) == ParseObjectsFrom(ParseObject(t))

\* the document of type type that r parsed, if r took the whole text
Whole(type, r) ==
    IF r.ok /\ Len(r.rest) = 0 THEN [ok |-> TRUE, type |-> type, val |-> r.val]
    ELSE JsonError

\* Response.json() of a body t; an array of strings is decoded as a
\* "scalar" list value, an array of objects as the "list" of their dicts
json(t) ==
    IF Len(t) = 0 THEN JsonError
    ELSE IF t[1] = "{" THEN Whole("dict", ParseObject(t))
    ELSE IF t[1] = "[" /\ Len(t) >= 2 /\ t[2] = "{" THEN Whole("list", ParseObjects(Tail(t)))
    ELSE IF t[1] = "[" /\ Len(t) = 2 /\ t[2] = "]"
         THEN [ok |-> TRUE, type |-> "list", val |-> <<>>]
    ELSE Whole("scalar", ParseValue(t))

\* Response.text of a body t: the body as one string
RECURSIVE text(_)
text(t) == IF Len(t) = 0 THEN "" ELSE Head(t) \o text(Tail(t))

\* s contains sub
Contains(s, sub) ==
    \E i \in 1..(Len(s) - Len(sub) + 1) : SubSeq(s, i, i + Len(sub) - 1) = sub

----------------------------------------------------------------------------
(* FMClient: construction                                                  *)

\* FMClient.__init__ without the check of cloud
FMClient_init_AnyCloud(host, api_key_id, api_key_secret, cloud, tenant_id) ==
    IF api_key_id # "None" /\ api_key_secret # "None"
    THEN [exc |-> "none", host |-> host, cloud |-> cloud, tenant_id |-> tenant_id]
    ELSE [exc |-> "ValueError", host |-> host, cloud |-> cloud, tenant_id |-> tenant_id]

\* FMClient.__init__(host, api_key_id, api_key_secret, cloud, tenant_id);
\* exc names the exception the constructor raises, "none" for a client
FMClient_init(host, api_key_id, api_key_secret, cloud, tenant_id) ==
    IF cloud \notin {"AWS", "Azure"}
    THEN [exc |-> "ValueError", host |-> host, cloud |-> "<unset>", tenant_id |-> "<unset>"]
    ELSE IF api_key_id # "None" /\ api_key_secret # "None"
         THEN [exc |-> "none", host |-> host, cloud |-> cloud, tenant_id |-> tenant_id]
         ELSE [exc |-> "ValueError", host |-> host, cloud |-> cloud, tenant_id |-> tenant_id]

Clouds == {"AWS", "Azure", "GCP"}
\* "main" is the default of the tenant_id parameter
TenantIds == {"main", "t2"}

----------------------------------------------------------------------------
(* The server and the transport: what one session.request can bring back   *)

\* status 0 stands for no response at all (the transport raises)
NoResponse == [status |-> 0, body |-> <<>>]

DocI1 == <<"{", "\"id\"", ":", "\"r1\"", ",", "\"label\"", ":", "\"L1\"", "}">>
DocT1 == <<"{", "\"id\"", ":", "\"r1\"", ",", "\"setupActions\"", ":", "[", "]", "}">>
DocI2 == <<"{", "\"id\"", ":", "\"r2\"", ",", "\"label\"", ":", "\"L2\"", "}">>
DocList0 == <<"[", "]">>
DocList2 == <<"[">> \o DocI1 \o <<",">> \o DocI2 \o <<"]">>

OkResponses ==
    {[status |-> 200, body |-> b] : b \in {DocI1, DocT1, DocList0, DocList2}}
    \cup {[status |-> 204, body |-> <<>>]}

ErrNotFound == <<"{", "\"errorType\"", ":", "\"NotFound\"", ",", "\"message\"", ":",
                 "\"no such instance\"", "}">>
ErrOnlyMessage == <<"{", "\"message\"", ":", "\"busy\"", "}">>
ErrEmptyObject == <<"{", "}">>
ErrArray == <<"[", "\"bad\"", "]">>
ErrString == <<"\"oops\"">>
ErrText == <<"internal error">>

ErrorResponses ==
    {[status |-> 404, body |-> ErrNotFound],
     [status |-> 503, body |-> ErrOnlyMessage],
     [status |-> 400, body |-> ErrEmptyObject],
     [status |-> 400, body |-> ErrArray],
     [status |-> 502, body |-> ErrString],
     [status |-> 500, body |-> ErrText]}

Responses == OkResponses \cup ErrorResponses \cup {NoResponse}

\* the answers to a PUT, whose body the client never reads (_perform_empty)
PutResponses == {r \in Responses : r.status # 200}

\* the answers to the request that follows one answered res1: a method
\* that raises on res1 makes no second request
After(res1) ==
    IF res1.status = 0 \/ (res1.status >= 400 /\ res1.status < 600)
    THEN {NoResponse} ELSE Responses

----------------------------------------------------------------------------
(* FMClient: internal request handling                                     *)

\* body=None
NoBody == JsonError

\* Response.raise_for_status() raises HTTPError
raise_for_status(res) == res.status >= 400 /\ res.status < 600

\* the message without the error type
DataikuExceptionMessage_OnlyMessage(ex) ==
    Str(DictGetDefault(ex, "message", PyStr("No message")))

\* the message of the DataikuException built from the decoded error body
DataikuExceptionMessage(ex) ==
    Str(DictGetDefault(ex, "errorType", PyStr("Unknown error"))) \o ": "
    \o Str(DictGetDefault(ex, "message", PyStr("No message")))

\* ex without the fallback to the text of the response
ErrorBody_NoText(j, res) == IF j.ok THEN j ELSE Doc(<<>>)

\* ex of _perform_http: the decoded body j of the response res, or a dict of
\* its text when it could not be decoded
ErrorBody(j, res) ==
    IF j.ok THEN j ELSE Doc(<<<<"message", PyStr(text(res.body))>>>>)

\* the HTTPError of raise_for_status let through
RaiseDataikuException_Reraise(req, ex) == [req |-> req, exc |-> "HTTPError", msg |-> ""]

\* the raise of _perform_http: ex.get needs a dict
RaiseDataikuException(req, ex) ==
    IF ex.type = "dict"
    THEN [req |-> req, exc |-> "DataikuException", msg |-> DataikuExceptionMessage(ex.val)]
    ELSE [req |-> req, exc |-> "AttributeError", msg |-> "get"]

\* _perform_http once the request req is made and the session answers res
Answer(req, res) ==
    IF res.status = 0 THEN [req |-> req, exc |-> "ConnectionError", msg |-> ""]
    ELSE IF raise_for_status(res)
    THEN RaiseDataikuException(req, ErrorBody(json(res.body), res))
    ELSE [req |-> req, exc |-> "none", msg |-> ""]

\* _perform_http(method, path, body=body) when the session answers res
\* (params, files, raw_body are None and stream is False in every caller).
\* req is the request handed to the session, exc the exception that leaves
\* the method ("none": it returns the response).
perform_http(method, path, body, res) ==
    Answer([method |-> method,
            url |-> client.host \o "/api/public" \o path,
            data |-> IF ~IsNone(body) THEN json_dumps(body) ELSE <<>>], res)

\* _perform_empty, r being the outcome of _perform_http: the response is
\* dropped
Dropped(r) == [req |-> r.req, exc |-> r.exc, msg |-> r.msg, ret |-> JsonError]

perform_empty(method, path, body, res) == Dropped(perform_http(method, path, body, res))

\* _perform_json, r being the outcome of _perform_http and j the decoded
\* body of the response
Decoded(r, j) ==
    IF r.exc # "none" THEN [req |-> r.req, exc |-> r.exc, msg |-> r.msg, ret |-> JsonError]
    ELSE IF ~j.ok THEN [req |-> r.req, exc |-> "ValueError", msg |-> "json", ret |-> JsonError]
    ELSE [req |-> r.req, exc |-> "none", msg |-> "", ret |-> j]

perform_json(method, path, body, res) ==
    Decoded(perform_http(method, path, body, res), json(res.body))

\* the path under the default tenant, whatever the client's tenant
TenantPath_Main(path) == "/tenants/main" \o path

\* "/tenants/%s%s" % (self.__tenant_id, path)
TenantPath(path) == "/tenants/" \o client.tenant_id \o path

perform_tenant_json(method, path, body, res) ==
    perform_json(method, TenantPath(path), body, res)

perform_tenant_empty(method, path, body, res) ==
    perform_empty(method, TenantPath(path), body, res)

----------------------------------------------------------------------------
(* Resource handles                                                        *)

\* a handle: its class, what its client attribute refers to ("FMClient", or
\* "Creator" for a builder object), its id and its snapshot (a document)
NoHandle == [cls |-> "none", client |-> "none", id |-> PyNone, data |-> JsonError]

InstanceClasses == {"FMInstance", "FMAWSInstance", "FMAzureInstance"}

\* FMInstance.__init__(client, instance_data) of class cls:
\* instance_data['id'] needs a dict that has an id
FMInstance_init(cls, clientRef, instance_data) ==
    IF instance_data.type # "dict" THEN [exc |-> "TypeError", obj |-> NoHandle]
    ELSE IF ~DictHas(instance_data.val, "id") THEN [exc |-> "KeyError", obj |-> NoHandle]
    ELSE [exc |-> "none",
          obj |-> [cls |-> cls, client |-> clientRef,
                   id |-> DictGet(instance_data.val, "id"), data |-> instance_data]]

\* FMInstanceSettingsTemplate.__init__(client, ist_data)
FMInstanceSettingsTemplate_init(clientRef, ist_data) ==
    IF ist_data.type # "dict" THEN [exc |-> "TypeError", obj |-> NoHandle]
    ELSE IF ~DictHas(ist_data.val, "id") THEN [exc |-> "KeyError", obj |-> NoHandle]
    ELSE [exc |-> "none",
          obj |-> [cls |-> "FMInstanceSettingsTemplate", client |-> clientRef,
                   id |-> DictGet(ist_data.val, "id"), data |-> ist_data]]

\* the outcome r of a request the client made for a handle, that got the
\* answer res: the requests made, the answers, the exception, the value
Sent(r, res) ==
    [reqs |-> <<r.req>>, resps |-> <<res>>, exc |-> r.exc, msg |-> r.msg, ret |-> r.ret]

\* the outcome of looking up the method attr on an object that lacks it
NoAttribute(attr) ==
    [reqs |-> <<>>, resps |-> <<>>, exc |-> "AttributeError", msg |-> attr, ret |-> JsonError]

\* the request made again after its answer
handle_tenant_json_Retry(h, method, path, body, res) ==
    IF h.client = "FMClient"
    THEN [Sent(perform_tenant_json(method, path, body, res), res)
            EXCEPT !.reqs = @ \o @, !.resps = @ \o @]
    ELSE NoAttribute("_perform_tenant_json")

\* h.client._perform_tenant_json(...): only an FMClient has the method
handle_tenant_json(h, method, path, body, res) ==
    IF h.client = "FMClient" THEN Sent(perform_tenant_json(method, path, body, res), res)
    ELSE NoAttribute("_perform_tenant_json")

\* h.client._perform_tenant_empty(...)
handle_tenant_empty(h, method, path, body, res) ==
    IF h.client = "FMClient" THEN Sent(perform_tenant_empty(method, path, body, res), res)
    ELSE NoAttribute("_perform_tenant_empty")

\* save() without the assignment of the GET response to self.*_data
PutThenGet_KeepsLocal(h, put, get) ==
    IF put.exc # "none"
    THEN [reqs |-> put.reqs, resps |-> put.resps, exc |-> put.exc, msg |-> put.msg,
          data |-> h.data]
    ELSE [reqs |-> put.reqs \o get.reqs, resps |-> put.resps \o get.resps,
          exc |-> get.exc, msg |-> get.msg, data |-> h.data]

\* save() that goes on to its GET whatever the PUT did
PutThenGet_GetsAnyway(h, put, get) ==
    [reqs |-> put.reqs \o get.reqs, resps |-> put.resps \o get.resps,
     exc |-> get.exc, msg |-> get.msg,
     data |-> IF get.exc = "none" THEN get.ret ELSE h.data]

\* the two statements of save(): put is the outcome of the first, get the
\* outcome the second has if it is reached; data is self.*_data afterwards
PutThenGet(h, put, get) ==
    IF put.exc # "none"
    THEN [reqs |-> put.reqs, resps |-> put.resps, exc |-> put.exc, msg |-> put.msg,
          data |-> h.data]
    ELSE [reqs |-> put.reqs \o get.reqs, resps |-> put.resps \o get.resps,
          exc |-> get.exc, msg |-> get.msg,
          data |-> IF get.exc = "none" THEN get.ret ELSE h.data]

\* FMInstance.save() on handle h, the two requests being answered res1, res2
FMInstance_save(h, res1, res2) ==
    PutThenGet(h,
        handle_tenant_empty(h, "PUT", "/instances/" \o Str(h.id), h.data, res1),
        handle_tenant_json(h, "GET", "/instances/" \o Str(h.id), NoBody, res2))

\* FMInstanceSettingsTemplate.save() on handle h
FMInstanceSettingsTemplate_save(h, res1, res2) ==
    PutThenGet(h,
        handle_tenant_empty(h, "PUT", "/instance-settings-templates/" \o Str(h.id),
                            h.data, res1),
        handle_tenant_json(h, "GET", "/instance-settings-templates/" \o Str(h.id),
                           NoBody, res2))

----------------------------------------------------------------------------
(* Builders: each with_* takes the builder's dict and returns the dict     *)
(* after the call and the exception raised ("none": the builder itself is  *)
(* returned)                                                               *)

Ok(data) == [exc |-> "none", data |-> data]
Raise(exc, data) == [exc |-> exc, data |-> data]

\* FMInstanceCreator.__init__
FMInstanceCreator_init(label, instance_settings_template_id, virtual_network_id, image_id) ==
    <<<<"label", label>>,
      <<"instanceSettingsTemplateId", instance_settings_template_id>>,
      <<"virtualNetworkId", virtual_network_id>>,
      <<"imageId", image_id>>,
      <<"dssNodeType", PyStr("design")>>>>

\* with_dss_node_type without the check of its argument
with_dss_node_type_Unchecked(data, dss_node_type) ==
    Ok(DictSet(data, "dssNodeType", dss_node_type))

with_dss_node_type(data, dss_node_type) ==
    IF dss_node_type \notin {PyStr("design"), PyStr("automation"), PyStr("deployer")}
    THEN Raise("ValueError", data)
    ELSE Ok(DictSet(data, "dssNodeType", dss_node_type))

\* with_cloud_instance_type starting a new dict
with_cloud_instance_type_Fresh(data, cloud_instance_type) ==
    Ok(<<<<"cloudInstanceType", cloud_instance_type>>>>)

with_cloud_instance_type(data, cloud_instance_type) ==
    Ok(DictSet(data, "cloudInstanceType", cloud_instance_type))

with_data_volume_options(data, data_volume_type, data_volume_size, data_volume_size_max, data_volume_IOPS, data_volume_encryption, data_volume_encryption_key) ==
    IF data_volume_encryption[1] # "FMInstanceEncryptionMode"
    THEN Raise("TypeError", data)
    ELSE Ok(DictSet(DictSet(DictSet(DictSet(DictSet(DictSet(data,
            "dataVolumeType", data_volume_type),
            "dataVolumeSizeGB", data_volume_size),
            "dataVolumeSizeMaxGB", data_volume_size_max),
            "dataVolumeIOPS", data_volume_IOPS),
            "dataVolumeEncryption", PyStr(data_volume_encryption[2])),
            "dataVolumeEncryptionKey", data_volume_encryption_key))

with_cloud_tags(data, cloud_tags) == Ok(DictSet(data, "cloudTags", cloud_tags))

\* with_fm_tags writing the key of with_cloud_tags
with_fm_tags_CloudKey(data, fm_tags) == Ok(DictSet(data, "cloudTags", fm_tags))

with_fm_tags(data, fm_tags) == Ok(DictSet(data, "fmTags", fm_tags))

\* FMAWSInstanceCreator
with_aws_root_volume_options(data, aws_root_volume_size, aws_root_volume_type, aws_root_volume_IOPS) ==
    Ok(DictSet(DictSet(DictSet(data,
         "awsRootVolumeSizeGB", aws_root_volume_size),
         "awsRootVolumeType", aws_root_volume_type),
         "awsRootVolumeIOPS", aws_root_volume_IOPS))

\* FMInstanceSettingsTemplateCreator.__init__
FMInstanceSettingsTemplateCreator_init(label) == <<<<"label", label>>>>

with_setup_actions(data, setup_actions) == Ok(DictSet(data, "setupActions", setup_actions))

with_license(data, license) == Ok(DictSet(data, "license", license))

\* FMAWSInstanceSettingsTemplateCreator
with_aws_keypair(data, aws_keypair_name) == Ok(DictSet(data, "awsKeyPairName", aws_keypair_name))

with_startup_instance_profile(data, startup_instance_profile_arn) ==
    Ok(DictSet(data, "startupInstanceProfileArn", startup_instance_profile_arn))

with_runtime_instance_profile(data, runtime_instance_profile_arn) ==
    Ok(DictSet(data, "runtimeInstanceProfileArn", runtime_instance_profile_arn))

with_restrict_aws_metadata_server_access(data, restrict_aws_metadata_server_access) ==
    Ok(DictSet(data, "restrictAwsMetadataServerAccess", restrict_aws_metadata_server_access))

with_default_aws_api_access_mode(data) ==
    Ok(DictSet(data, "dataikuAwsAPIAccessMode", PyStr("NONE")))

\* the storage-mode branches without the checks of the secret
KeypairSecret_Unchecked(d2, aws_keypair_storage_mode, aws_secret_access_key, aws_secret_access_key_aws_secret_name, aws_secrets_manager_region) ==
    IF aws_keypair_storage_mode = PyStr("INLINE_ENCRYPTED")
    THEN Ok(DictSet(d2, "dataikuAwsSecretAccessKey", aws_secret_access_key))
    ELSE Ok(DictSet(DictSet(d2,
              "dataikuAwsSecretAccessKeyAwsSecretName",
              aws_secret_access_key_aws_secret_name),
              "awsSecretsManagerRegion", aws_secrets_manager_region))

\* with_keypair_aws_api_access_mode from the storage-mode branches on, d2
\* being the dict with the access mode, the storage mode and the key id set
KeypairSecret(d2, aws_keypair_storage_mode, aws_secret_access_key, aws_secret_access_key_aws_secret_name, aws_secrets_manager_region) ==
    IF aws_keypair_storage_mode = PyStr("INLINE_ENCRYPTED")
    THEN IF aws_secret_access_key = PyNone
         THEN Raise("ValueError", d2)
         ELSE Ok(DictSet(d2, "dataikuAwsSecretAccessKey", aws_secret_access_key))
    ELSE IF aws_secret_access_key_aws_secret_name = PyNone
         THEN Raise("ValueError", d2)
         ELSE Ok(DictSet(DictSet(d2,
                   "dataikuAwsSecretAccessKeyAwsSecretName",
                   aws_secret_access_key_aws_secret_name),
                   "awsSecretsManagerRegion", aws_secrets_manager_region))

\* with_keypair_aws_api_access_mode from the first assignments on, d1 being
\* the dict with the access mode and the storage mode set
KeypairStorage(d1, aws_access_key_id, aws_keypair_storage_mode, aws_secret_access_key, aws_secret_access_key_aws_secret_name, aws_secrets_manager_region) ==
    IF aws_keypair_storage_mode = PyStr("NONE") THEN Ok(d1)
    ELSE KeypairSecret(DictSet(d1, "dataikuAwsAccessKeyId", aws_access_key_id),
                       aws_keypair_storage_mode, aws_secret_access_key,
                       aws_secret_access_key_aws_secret_name, aws_secrets_manager_region)

with_keypair_aws_api_access_mode(data, aws_access_key_id, aws_keypair_storage_mode, aws_secret_access_key, aws_secret_access_key_aws_secret_name, aws_secrets_manager_region) ==
    IF aws_keypair_storage_mode \notin
         {PyStr("NONE"), PyStr("INLINE_ENCRYPTED"), PyStr("AWS_SECRETS_MANAGER")}
    THEN Raise("ValueError", data)
    ELSE KeypairStorage(DictSet(DictSet(data, "dataikuAwsAPIAccessMode", PyStr("KEYPAIR")),
                                "dataikuAwsKeypairStorageMode", aws_keypair_storage_mode),
                        aws_access_key_id, aws_keypair_storage_mode, aws_secret_access_key,
                        aws_secret_access_key_aws_secret_name, aws_secrets_manager_region)

\* FMAzureInstanceSettingsTemplateCreator
with_ssh_key(data, ssh_public_key) == Ok(DictSet(data, "azureSshKey", ssh_public_key))

with_startup_managed_identity(data, startup_managed_identity) ==
    Ok(DictSet(data, "startupManagedIdentity", startup_managed_identity))

with_runtime_managed_identity(data, runtime_managed_identity) ==
    Ok(DictSet(data, "runtimeManagedIdentity", runtime_managed_identity))

----------------------------------------------------------------------------
(* The calls a program makes on a builder                                  *)

InstanceCreators == {"FMAWSInstanceCreator", "FMAzureInstanceCreator"}
TemplateCreators == {"FMAWSInstanceSettingsTemplateCreator",
                     "FMAzureInstanceSettingsTemplateCreator"}

Call(m, args) == [m |-> m, args |-> args]

\* the call on the builder's dict
Apply(call, data) ==
    CASE call.m = "with_dss_node_type" -> with_dss_node_type(data, call.args[1])
      [] call.m = "with_cloud_instance_type" -> with_cloud_instance_type(data, call.args[1])
      [] call.m = "with_data_volume_options" ->
            with_data_volume_options(data, call.args[1], call.args[2], call.args[3],
                                     call.args[4], call.args[5], call.args[6])
      [] call.m = "with_cloud_tags" -> with_cloud_tags(data, call.args[1])
      [] call.m = "with_fm_tags" -> with_fm_tags(data, call.args[1])
      [] call.m = "with_aws_root_volume_options" ->
            with_aws_root_volume_options(data, call.args[1], call.args[2], call.args[3])
      [] call.m = "with_setup_actions" -> with_setup_actions(data, call.args[1])
      [] call.m = "with_license" -> with_license(data, call.args[1])
      [] call.m = "with_aws_keypair" -> with_aws_keypair(data, call.args[1])
      [] call.m = "with_startup_instance_profile" ->
            with_startup_instance_profile(data, call.args[1])
      [] call.m = "with_runtime_instance_profile" ->
            with_runtime_instance_profile(data, call.args[1])
      [] call.m = "with_restrict_aws_metadata_server_access" ->
            with_restrict_aws_metadata_server_access(data, call.args[1])
      [] call.m = "with_default_aws_api_access_mode" ->
            with_default_aws_api_access_mode(data)
      [] call.m = "with_keypair_aws_api_access_mode" ->
            with_keypair_aws_api_access_mode(data, call.args[1], call.args[2], call.args[3],
                                             call.args[4], call.args[5])
      [] call.m = "with_ssh_key" -> with_ssh_key(data, call.args[1])
      [] call.m = "with_startup_managed_identity" ->
            with_startup_managed_identity(data, call.args[1])
      [] call.m = "with_runtime_managed_identity" ->
            with_runtime_managed_identity(data, call.args[1])

\* arguments the model draws from
NodeTypes == {PyStr("automation"), PyStr("bogus")}
DataVolumeArgs ==
    {<<PyNone, PyInt("50"), PyNone, PyNone, PyNone, PyNone>>,
     <<PyStr("gp2"), PyInt("50"), PyNone, PyNone, EncryptionMode("CUSTOM"), PyStr("key1")>>}
KeypairArgs ==
    {<<PyStr("AK1"), PyStr("NONE"), PyNone, PyNone, PyNone>>,
     <<PyStr("AK1"), PyStr("INLINE_ENCRYPTED"), PyStr("secret"), PyNone, PyNone>>,
     <<PyStr("AK2"), PyStr("INLINE_ENCRYPTED"), PyNone, PyNone, PyNone>>,
     <<PyStr("AK1"), PyStr("AWS_SECRETS_MANAGER"), PyNone, PyStr("name"), PyStr("eu-west-1")>>,
     <<PyStr("AK2"), PyStr("AWS_SECRETS_MANAGER"), PyNone, PyNone, PyNone>>,
     <<PyStr("AK1"), PyStr("AWS_SECRET_MANAGER"), PyNone, PyStr("name"), PyNone>>}

----------------------------------------------------------------------------
(* State                                                                   *)

\* a builder: its class, its dict as constructed (init) and now (data), the
\* with_* calls made on it, and the POST of its last create() (posts: none
\* or one), with the number of with_* calls made before it
NoBuilder == [cls |-> "none", init |-> <<>>, data |-> <<>>, calls |-> <<>>, posts |-> <<>>]

\* a builder of class cls as constructed with the dict d
NewBuilder(cls, d) ==
    IF cls = "none" THEN NoBuilder
    ELSE [cls |-> cls, init |-> d, data |-> d, calls |-> <<>>, posts |-> <<>>]

\* the call made last: pre is the dict or snapshot it found, ret what it
\* returned ("raise": nothing, "polling": a wait that goes on), rets the
\* handles of a returned list, prev the POST of the create() before it, if
\* it is a create(), result the payload a wait returned
Last(op, reqs, resps, exc, msg, pre, ret) ==
    [op |-> op, reqs |-> reqs, resps |-> resps, exc |-> exc, msg |-> msg,
     pre |-> pre, ret |-> ret, rets |-> <<>>, prev |-> <<>>, result |-> JsonError]

Init ==
    \E host \in {"https://fm"}, api_key_id \in {"kid", "None"},
       api_key_secret \in {"ksecret", "None"},
       cloud \in Clouds, tenant_id \in TenantIds :
        /\ ctor = [host |-> host, api_key_id |-> api_key_id,
                   api_key_secret |-> api_key_secret, cloud |-> cloud,
                   tenant_id |-> tenant_id]
        /\ client = FMClient_init(host, api_key_id, api_key_secret, cloud, tenant_id)
        /\ builder = NoBuilder
        /\ handle = NoHandle
        /\ last = Last("FMClient", <<>>, <<>>, client.exc, "", JsonError,
                       IF client.exc = "none" THEN "FMClient" ELSE "raise")

Idle == Last("idle", <<>>, <<>>, "none", "", JsonError, "None")

\* there is a client, and the program is between two calls
Ready == client.exc = "none" /\ last.op = "idle"

\* the caller takes the outcome of the call it made and goes on
Return ==
    /\ last.op # "idle"
    /\ last.ret # "polling"
    /\ last' = Idle
    /\ UNCHANGED <<ctor, client, builder, handle>>

\* ret when there is no exception
Returns(exc, ret) == IF exc = "none" THEN ret ELSE "raise"

----------------------------------------------------------------------------
(* FMClient: instances and instance settings templates                     *)

InstanceIds == {"r1"}
TemplateIds == {"r1"}

\* the class new_instance_creator picks for the client's cloud
InstanceCreatorClass ==
    IF client.cloud = "AWS" THEN "FMAWSInstanceCreator"
    ELSE IF client.cloud = "Azure" THEN "FMAzureInstanceCreator"
    ELSE "none"

\* FMClient.new_instance_creator
new_instance_creator ==
    /\ Ready
    /\ \E label \in {PyStr("L1")}, cls \in {InstanceCreatorClass} :
         /\ builder' = NewBuilder(cls, FMInstanceCreator_init(label, PyStr("t1"),
                                         PyStr("vn1"), PyStr("dss-9.0.3")))
         /\ last' = Last("new_instance_creator", <<>>, <<>>, "none", "", JsonError,
                         IF cls = "none" THEN "None" ELSE cls)
    /\ UNCHANGED <<ctor, client, handle>>

\* the class new_instance_template_creator picks for the client's cloud
TemplateCreatorClass ==
    IF client.cloud = "AWS" THEN "FMAWSInstanceSettingsTemplateCreator"
    ELSE IF client.cloud = "Azure" THEN "FMAzureInstanceSettingsTemplateCreator"
    ELSE "none"

\* FMClient.new_instance_template_creator
new_instance_template_creator ==
    /\ Ready
    /\ \E label \in {PyStr("L1")}, cls \in {TemplateCreatorClass} :
         /\ builder' = NewBuilder(cls, FMInstanceSettingsTemplateCreator_init(label))
         /\ last' = Last("new_instance_template_creator", <<>>, <<>>, "none", "",
                         JsonError, IF cls = "none" THEN "None" ELSE cls)
    /\ UNCHANGED <<ctor, client, handle>>

\* a method that wraps the decoded response of its request in a handle: r
\* is the outcome of the request, h the outcome of the handle's constructor
Wrapped(r, h) ==
    [req |-> r.req, msg |-> r.msg, obj |-> h.obj,
     exc |-> IF r.exc # "none" THEN r.exc ELSE h.exc]

\* POST or GET of path, answered res, and FMInstance of class cls on the
\* decoded response
InstanceOf(cls, r) == Wrapped(r, FMInstance_init(cls, "FMClient", r.ret))

\* FMClient.get_instance
get_instance ==
    /\ Ready
    /\ \E instance_id \in InstanceIds, res \in Responses :
       \E w \in {InstanceOf("FMInstance",
                   perform_tenant_json("GET", "/instances/" \o instance_id, NoBody, res))} :
         /\ handle' = IF w.exc = "none" THEN w.obj ELSE handle
         /\ last' = Last("get_instance", <<w.req>>, <<res>>, w.exc, w.msg, JsonError,
                         Returns(w.exc, "FMInstance"))
    /\ UNCHANGED <<ctor, client, builder>>

\* FMInstanceSettingsTemplate(clientRef, ...) on the decoded response
TemplateOf(clientRef, r) == Wrapped(r, FMInstanceSettingsTemplate_init(clientRef, r.ret))

\* FMClient.get_instance_template
get_instance_template ==
    /\ Ready
    /\ \E template_id \in TemplateIds, res \in Responses :
       \E w \in {TemplateOf("FMClient",
                   perform_tenant_json("GET", "/instance-settings-templates/" \o template_id,
                                       NoBody, res))} :
         /\ handle' = IF w.exc = "none" THEN w.obj ELSE handle
         /\ last' = Last("get_instance_template", <<w.req>>, <<res>>, w.exc, w.msg,
                         JsonError, Returns(w.exc, "FMInstanceSettingsTemplate"))
    /\ UNCHANGED <<ctor, client, builder>>

\* FMInstance(self, **x): the items of x are the keyword arguments of
\* FMInstance.__init__(client, instance_data); only instance_data is one
FMInstance_kwargs(x) ==
    IF DictKeys(x) = {"instance_data"}
    THEN FMInstance_init("FMInstance", "FMClient",
                         [ok |-> TRUE, type |-> "scalar", val |-> DictGet(x, "instance_data")])
    ELSE [exc |-> "TypeError", obj |-> NoHandle]

\* the list built from the outcomes os of the constructor calls: the
\* handles, or the exception of the first call that raises
Comprehension(os) ==
    IF \E i \in DOMAIN os : os[i].exc # "none"
    THEN [exc |-> os[CHOOSE i \in DOMAIN os :
                       /\ os[i].exc # "none"
                       /\ \A j \in 1..(i - 1) : os[j].exc = "none"].exc,
          rets |-> <<>>]
    ELSE [exc |-> "none", rets |-> [i \in DOMAIN os |-> os[i].obj]]

\* [ FMInstance(self, **x) for x in instances ]
list_comprehension(instances) ==
    IF instances.type = "list"
    THEN Comprehension([i \in DOMAIN instances.val |-> FMInstance_kwargs(instances.val[i])])
    ELSE IF instances.type = "dict" /\ Len(instances.val) = 0
    THEN [exc |-> "none", rets |-> <<>>]
    ELSE [exc |-> "TypeError", rets |-> <<>>]

\* list_instances, r being the outcome of its request and l of the list
\* comprehension on the decoded response
Listed(r, l) ==
    [req |-> r.req, msg |-> r.msg, exc |-> IF r.exc # "none" THEN r.exc ELSE l.exc,
     rets |-> IF r.exc # "none" THEN <<>> ELSE l.rets]

\* FMClient.list_instances
list_instances ==
    /\ Ready
    /\ \E res \in Responses :
       \E r \in {perform_tenant_json("GET", "/instances", NoBody, res)} :
       \E w \in {Listed(r, list_comprehension(r.ret))} :
         last' = [Last("list_instances", <<w.req>>, <<res>>, w.exc, w.msg, JsonError,
                       Returns(w.exc, "list"))
                  EXCEPT !.rets = w.rets]
    /\ UNCHANGED <<ctor, client, builder, handle>>

----------------------------------------------------------------------------
(* Builders: the with_* calls and create()                                 *)

\* one with_* call on the builder the program holds
BuilderCall(call) ==
    /\ Ready
    /\ Len(builder.calls) < MaxCalls
    /\ \E r \in {Apply(call, builder.data)} :
         /\ builder' = [builder EXCEPT !.data = r.data, !.calls = Append(@, call)]
         /\ last' = Last(call.m, <<>>, <<>>, r.exc, "", Doc(builder.data),
                         Returns(r.exc, "self"))
    /\ UNCHANGED <<ctor, client, handle>>

Do_with_dss_node_type ==
    /\ builder.cls \in InstanceCreators
    /\ \E v \in NodeTypes : BuilderCall(Call("with_dss_node_type", <<v>>))

Do_with_cloud_instance_type ==
    /\ builder.cls \in InstanceCreators
    /\ BuilderCall(Call("with_cloud_instance_type", <<PyStr("m5.large")>>))

Do_with_data_volume_options ==
    /\ builder.cls \in InstanceCreators
    /\ \E a \in DataVolumeArgs : BuilderCall(Call("with_data_volume_options", a))

Do_with_cloud_tags ==
    /\ builder.cls \in InstanceCreators
    /\ BuilderCall(Call("with_cloud_tags", <<PyDict("team", "a")>>))

Do_with_fm_tags ==
    /\ builder.cls \in InstanceCreators
    /\ BuilderCall(Call("with_fm_tags", <<PyList(<<"tag1">>)>>))

Do_with_aws_root_volume_options ==
    /\ builder.cls \in {"FMAWSInstanceCreator"}
    /\ BuilderCall(Call("with_aws_root_volume_options", <<PyInt("50"), PyNone, PyNone>>))

Do_with_setup_actions ==
    /\ builder.cls \in TemplateCreators
    /\ BuilderCall(Call("with_setup_actions", <<PyList(<<"a1">>)>>))

Do_with_license ==
    /\ builder.cls \in TemplateCreators
    /\ BuilderCall(Call("with_license", <<PyStr("lic")>>))

Do_with_aws_keypair ==
    /\ builder.cls \in {"FMAWSInstanceSettingsTemplateCreator"}
    /\ BuilderCall(Call("with_aws_keypair", <<PyStr("kp")>>))

Do_with_startup_instance_profile ==
    /\ builder.cls \in {"FMAWSInstanceSettingsTemplateCreator"}
    /\ BuilderCall(Call("with_startup_instance_profile", <<PyStr("arn:s")>>))

Do_with_runtime_instance_profile ==
    /\ builder.cls \in {"FMAWSInstanceSettingsTemplateCreator"}
    /\ BuilderCall(Call("with_runtime_instance_profile", <<PyStr("arn:r")>>))

Do_with_restrict_aws_metadata_server_access ==
    /\ builder.cls \in {"FMAWSInstanceSettingsTemplateCreator"}
    /\ BuilderCall(Call("with_restrict_aws_metadata_server_access", <<PyTrue>>))

Do_with_default_aws_api_access_mode ==
    /\ builder.cls \in {"FMAWSInstanceSettingsTemplateCreator"}
    /\ BuilderCall(Call("with_default_aws_api_access_mode", <<>>))

Do_with_keypair_aws_api_access_mode ==
    /\ builder.cls \in {"FMAWSInstanceSettingsTemplateCreator"}
    /\ \E a \in KeypairArgs : BuilderCall(Call("with_keypair_aws_api_access_mode", a))

Do_with_ssh_key ==
    /\ builder.cls \in {"FMAzureInstanceSettingsTemplateCreator"}
    /\ BuilderCall(Call("with_ssh_key", <<PyStr("ssh-rsa")>>))

Do_with_startup_managed_identity ==
    /\ builder.cls \in {"FMAzureInstanceSettingsTemplateCreator"}
    /\ BuilderCall(Call("with_startup_managed_identity", <<PyStr("mi:s")>>))

Do_with_runtime_managed_identity ==
    /\ builder.cls \in {"FMAzureInstanceSettingsTemplateCreator"}
    /\ BuilderCall(Call("with_runtime_managed_identity", <<PyStr("mi:r")>>))

\* create() that leaves the builder with the dict it was constructed with
CreateStep_Resets(cls, w, res) ==
    /\ builder' = [builder EXCEPT
                     !.data = builder.init,
                     !.posts = <<[req |-> w.req, calls |-> Len(builder.calls)]>>]
    /\ handle' = IF w.exc = "none" THEN w.obj ELSE handle
    /\ last' = [Last("create", <<w.req>>, <<res>>, w.exc, w.msg, Doc(builder.data),
                     Returns(w.exc, cls))
                EXCEPT !.prev = builder.posts]
    /\ UNCHANGED <<ctor, client>>

\* the step of create(): w is the outcome of the POST, answered res, and of
\* wrapping the decoded response in a handle of class cls
CreateStep(cls, w, res) ==
    /\ builder' = [builder EXCEPT
                     !.posts = <<[req |-> w.req, calls |-> Len(builder.calls)]>>]
    /\ handle' = IF w.exc = "none" THEN w.obj ELSE handle
    /\ last' = [Last("create", <<w.req>>, <<res>>, w.exc, w.msg, Doc(builder.data),
                     Returns(w.exc, cls))
                EXCEPT !.prev = builder.posts]
    /\ UNCHANGED <<ctor, client>>

\* FMAWSInstanceCreator.create()
FMAWSInstanceCreator_create ==
    /\ Ready
    /\ builder.cls = "FMAWSInstanceCreator"
    /\ \E res \in Responses :
         CreateStep("FMAWSInstance",
                    InstanceOf("FMAWSInstance",
                      perform_tenant_json("POST", "/instances", Doc(builder.data), res)),
                    res)

\* FMAzureInstanceCreator.create()
FMAzureInstanceCreator_create ==
    /\ Ready
    /\ builder.cls = "FMAzureInstanceCreator"
    /\ \E res \in Responses :
         CreateStep("FMAzureInstance",
                    InstanceOf("FMAzureInstance",
                      perform_tenant_json("POST", "/instances", Doc(builder.data), res)),
                    res)

\* FMInstanceSettingsTemplateCreator.create(): the handle is given self, the
\* creator, where FMInstanceSettingsTemplate.__init__ takes the client
FMInstanceSettingsTemplateCreator_create ==
    /\ Ready
    /\ builder.cls \in TemplateCreators
    /\ \E res \in Responses :
         CreateStep("FMInstanceSettingsTemplate",
                    TemplateOf("Creator",
                      perform_tenant_json("POST", "/instance-settings-templates",
                                          Doc(builder.data), res)),
                    res)

----------------------------------------------------------------------------
(* FMInstance                                                              *)

\* the step of a method that makes one request and hands the decoded
\* response to the constructor of the class ret: r is the outcome
RequestStep(op, r, ret) ==
    /\ last' = Last(op, r.reqs, r.resps, r.exc, r.msg, handle.data, Returns(r.exc, ret))
    /\ UNCHANGED <<ctor, client, builder, handle>>

\* reprovision, deprovision, restart_dss and delete of FMInstance: one GET
\* on the action's path; the decoded response goes to FMFuture.from_resp
InstanceAction(op, action) ==
    /\ Ready
    /\ handle.cls \in InstanceClasses
    /\ \E res \in Responses :
         RequestStep(op,
                     handle_tenant_json(handle, "GET",
                       "/instances/" \o Str(handle.id) \o "/actions/" \o action, NoBody, res),
                     "FMFuture")

reprovision == InstanceAction("reprovision", "reprovision")

deprovision == InstanceAction("deprovision", "deprovision")

restart_dss == InstanceAction("restart_dss", "restart-dss")

FMInstance_delete == InstanceAction("delete", "delete")

\* FMInstanceStatus.__init__(data), dict(data): a mapping, or a sequence of
\* items of two elements each; exc is the exception it raises
FMInstanceStatus_init(data) ==
    CASE data.type = "dict" -> "none"
      [] data.type = "list" ->
            IF \A i \in DOMAIN data.val : Len(data.val[i]) = 2 THEN "none" ELSE "ValueError"
      [] data.type = "scalar" /\ data.val[1] = "str" ->
            IF Len(data.val[2]) = 0 THEN "none" ELSE "ValueError"
      [] data.type = "scalar" /\ data.val[1] = "list" ->
            IF \A i \in 2..Len(data.val) : Len(data.val[i]) = 2 THEN "none" ELSE "ValueError"
      [] OTHER -> "TypeError"

\* get_status, r being the outcome of its request
StatusOf(r) ==
    IF r.exc # "none" THEN r ELSE [r EXCEPT !.exc = FMInstanceStatus_init(r.ret)]

\* FMInstance.get_status()
get_status ==
    /\ Ready
    /\ handle.cls \in InstanceClasses
    /\ \E res \in Responses :
         RequestStep("get_status",
                     StatusOf(handle_tenant_json(handle, "GET",
                       "/instances/" \o Str(handle.id) \o "/status", NoBody, res)),
                     "FMInstanceStatus")

\* the step of a method that ends in self.save(): r is the outcome of save
\* on the locally changed handle h1
SaveStep(op, h1, r) ==
    /\ handle' = [h1 EXCEPT !.data = r.data]
    /\ last' = Last(op, r.reqs, r.resps, r.exc, r.msg, handle.data, Returns(r.exc, "None"))
    /\ UNCHANGED <<ctor, client, builder>>

\* a method that raises exc before it changes or sends anything
RaiseStep(op, exc) ==
    /\ last' = Last(op, <<>>, <<>>, exc, "", handle.data, "raise")
    /\ UNCHANGED <<ctor, client, builder, handle>>

\* FMInstance.save()
Do_FMInstance_save ==
    /\ Ready
    /\ handle.cls \in InstanceClasses
    /\ \E res1 \in PutResponses :
       \E res2 \in After(res1) :
         SaveStep("save", handle, FMInstance_save(handle, res1, res2))

\* a setter of FMInstance: d1 is the snapshot with its assignments made,
\* which need a dict; then save()
InstanceSetter(op, d1) ==
    IF handle.data.type # "dict"
    THEN RaiseStep(op, "TypeError")
    ELSE \E res1 \in PutResponses :
         \E res2 \in After(res1) :
         \E h1 \in {[handle EXCEPT !.data.val = d1]} :
           SaveStep(op, h1, FMInstance_save(h1, res1, res2))

\* FMInstance.set_automated_snapshots(enable, period, keep=0)
set_automated_snapshots ==
    /\ Ready
    /\ handle.cls \in InstanceClasses
    /\ \E enable \in {PyTrue}, period \in {PyInt("24")}, keep \in {PyInt("0")} :
         InstanceSetter("set_automated_snapshots",
             DictSet(DictSet(DictSet(handle.data.val,
               "enableAutomatedSnapshot", enable),
               "automatedSnapshotPeriod", period),
               "automatedSnapshotRetention", keep))

\* FMInstance.set_custom_certificate(pem_data)
set_custom_certificate ==
    /\ Ready
    /\ handle.cls \in InstanceClasses
    /\ \E pem_data \in {PyStr("PEM")} :
         InstanceSetter("set_custom_certificate",
             DictSet(handle.data.val, "sslCertificatePEM", pem_data))

\* FMAWSInstance.set_elastic_ip(enable, elasticip_allocation_id)
FMAWSInstance_set_elastic_ip ==
    /\ Ready
    /\ handle.cls = "FMAWSInstance"
    /\ \E enable \in {PyTrue}, elasticip_allocation_id \in {PyStr("eipalloc-1")} :
         InstanceSetter("set_elastic_ip",
             DictSet(DictSet(handle.data.val, "awsAssignElasticIP", enable),
                     "awsElasticIPAllocationId", elasticip_allocation_id))

\* FMAzureInstance.set_elastic_ip(enable, public_ip_id)
FMAzureInstance_set_elastic_ip ==
    /\ Ready
    /\ handle.cls = "FMAzureInstance"
    /\ \E enable \in {PyTrue}, public_ip_id \in {PyStr("pip-1")} :
         InstanceSetter("set_elastic_ip",
             DictSet(DictSet(handle.data.val, "azureAssignElasticIP", enable),
                     "azurePublicIPId", public_ip_id))

----------------------------------------------------------------------------
(* FMInstanceSettingsTemplate                                              *)

\* FMInstanceSettingsTemplate.save()
Do_FMInstanceSettingsTemplate_save ==
    /\ Ready
    /\ handle.cls = "FMInstanceSettingsTemplate"
    /\ \E res1 \in PutResponses :
       \E res2 \in After(res1) :
         SaveStep("save", handle, FMInstanceSettingsTemplate_save(handle, res1, res2))

\* FMInstanceSettingsTemplate.delete(): one DELETE; the decoded response
\* goes to FMFuture.from_resp
FMInstanceSettingsTemplate_delete ==
    /\ Ready
    /\ handle.cls = "FMInstanceSettingsTemplate"
    /\ \E res \in Responses :
         RequestStep("delete",
                     handle_tenant_json(handle, "DELETE",
                       "/instance-settings-templates/" \o Str(handle.id), NoBody, res),
                     "FMFuture")

\* FMInstanceSettingsTemplate.add_setup_action(setup_action)
add_setup_action ==
    /\ Ready
    /\ handle.cls = "FMInstanceSettingsTemplate"
    /\ IF handle.data.type # "dict"
       THEN RaiseStep("add_setup_action", "TypeError")
       ELSE IF ~DictHas(handle.data.val, "setupActions")
       THEN RaiseStep("add_setup_action", "KeyError")
       ELSE IF DictGet(handle.data.val, "setupActions")[1] # "list"
       THEN RaiseStep("add_setup_action", "AttributeError")
       ELSE /\ Len(DictGet(handle.data.val, "setupActions")) <= MaxActions
            /\ \E setup_action \in {"a1"}, res1 \in PutResponses :
               \E res2 \in After(res1) :
               \E h1 \in {[handle EXCEPT !.data.val =
                            DictSet(@, "setupActions",
                                    Append(DictGet(@, "setupActions"), setup_action))]} :
                 SaveStep("add_setup_action", h1,
                          FMInstanceSettingsTemplate_save(h1, res1, res2))


----------------------------------------------------------------------------
(* FMFuture: the job an action started, polled to its end                  *)

\* the states of a job as the status endpoint shows them; SUCCESS and
\* FAILURE are terminal
JobStates == {"PENDING", "RUNNING", "SUCCESS", "FAILURE"}

DocResult == <<"{", "\"result\"", ":", "\"ok\"", "}">>
DocBoom == <<"{", "\"message\"", ":", "\"boom\"", "}">>

\* the answers of the status endpoint: job is the state of the job, body the
\* payload that comes with it ("none": the answer shows no job)
PollResponses ==
    {[status |-> 200, body |-> ErrEmptyObject, job |-> "PENDING"],
     [status |-> 200, body |-> ErrEmptyObject, job |-> "RUNNING"],
     [status |-> 200, body |-> DocResult, job |-> "SUCCESS"],
     [status |-> 200, body |-> DocBoom, job |-> "FAILURE"],
     [status |-> 404, body |-> ErrNotFound, job |-> "none"],
     [status |-> 0, body |-> <<>>, job |-> "none"]}

\* the message of the exception of a failed job, from its payload
FailureMessage(payload) ==
    IF payload.type = "dict"
    THEN Str(DictGetDefault(payload.val, "message", PyStr("No message")))
    ELSE "No message"

\* a wait that takes a running job for one that is over
Observed_StopsWhenRunning(o, res) ==
    IF o.exc # "none"
    THEN [exc |-> o.exc, msg |-> o.msg, ret |-> "raise", result |-> JsonError]
    ELSE IF res.job = "PENDING"
    THEN [exc |-> "none", msg |-> "", ret |-> "polling", result |-> JsonError]
    ELSE IF res.job \in {"SUCCESS", "RUNNING"}
    THEN [exc |-> "none", msg |-> "", ret |-> "payload", result |-> o.ret]
    ELSE [exc |-> "DataikuException", msg |-> FailureMessage(o.ret), ret |-> "raise",
          result |-> JsonError]

\* what the wait does with the answer res of one poll, o being the outcome
\* of the request: it goes on while the job is PENDING or RUNNING, returns
\* the payload of a SUCCESS and raises with the payload of a FAILURE
Observed(o, res) ==
    IF o.exc # "none"
    THEN [exc |-> o.exc, msg |-> o.msg, ret |-> "raise", result |-> JsonError]
    ELSE IF res.job \in {"PENDING", "RUNNING"}
    THEN [exc |-> "none", msg |-> "", ret |-> "polling", result |-> JsonError]
    ELSE IF res.job = "SUCCESS"
    THEN [exc |-> "none", msg |-> "", ret |-> "payload", result |-> o.ret]
    ELSE [exc |-> "DataikuException", msg |-> FailureMessage(o.ret), ret |-> "raise",
          result |-> JsonError]

\* the methods that return a future
FutureOps == {"reprovision", "deprovision", "restart_dss", "delete"}

\* the wait operation is called on the future the last call returned
FMFuture_wait ==
    /\ last.op \in FutureOps
    /\ last.ret = "FMFuture"
    /\ last' = Last("wait", <<>>, <<>>, "none", "", last.pre, "polling")
    /\ UNCHANGED <<ctor, client, builder, handle>>

\* one poll of the wait, answered res, added to those made
PollStep(o, res, w) ==
    /\ last' = [last EXCEPT !.reqs = Append(@, o.req), !.resps = Append(@, res),
                           !.exc = w.exc, !.msg = w.msg, !.ret = w.ret,
                           !.result = w.result]
    /\ UNCHANGED <<ctor, client, builder, handle>>

\* one round of the polling loop of the wait
FMFuture_poll ==
    /\ last.op = "wait"
    /\ last.ret = "polling"
    /\ Len(last.reqs) < MaxPolls
    /\ \E res \in PollResponses :
         \E o \in {perform_tenant_json("GET", "/futures", NoBody, res)} :
             PollStep(o, res, Observed(o, res))

FutureNext == FMFuture_wait \/ FMFuture_poll
(* Specifications                                                          *)

ClientNext ==
    \/ new_instance_creator
    \/ new_instance_template_creator
    \/ get_instance
    \/ get_instance_template
    \/ list_instances

SetterNext ==
    \/ Do_with_dss_node_type
    \/ Do_with_cloud_instance_type
    \/ Do_with_data_volume_options
    \/ Do_with_cloud_tags
    \/ Do_with_fm_tags
    \/ Do_with_aws_root_volume_options
    \/ Do_with_setup_actions
    \/ Do_with_license
    \/ Do_with_aws_keypair
    \/ Do_with_startup_instance_profile
    \/ Do_with_runtime_instance_profile
    \/ Do_with_restrict_aws_metadata_server_access
    \/ Do_with_default_aws_api_access_mode
    \/ Do_with_keypair_aws_api_access_mode
    \/ Do_with_ssh_key
    \/ Do_with_startup_managed_identity
    \/ Do_with_runtime_managed_identity

CreateNext ==
    \/ FMAWSInstanceCreator_create
    \/ FMAzureInstanceCreator_create
    \/ FMInstanceSettingsTemplateCreator_create

HandleNext ==
    \/ reprovision
    \/ deprovision
    \/ restart_dss
    \/ FMInstance_delete
    \/ get_status
    \/ Do_FMInstance_save
    \/ set_automated_snapshots
    \/ set_custom_certificate
    \/ FMAWSInstance_set_elastic_ip
    \/ FMAzureInstance_set_elastic_ip
    \/ Do_FMInstanceSettingsTemplate_save
    \/ FMInstanceSettingsTemplate_delete
    \/ add_setup_action

Next == ClientNext \/ SetterNext \/ CreateNext \/ HandleNext \/ FutureNext \/ Return

\* every program
Spec == Init /\ [][Next]_vars

\* the programs that build, on a client of the default tenant: creators,
\* their with_* calls and create()
BuilderNext ==
    \/ new_instance_creator
    \/ new_instance_template_creator
    \/ SetterNext
    \/ CreateNext
    \/ Return

\* a client constructed with the default tenant_id="main"
DefaultTenant == Init /\ ctor.tenant_id = "main"

SpecBuilders == DefaultTenant /\ [][BuilderNext]_vars

\* the programs that work on handles: obtained from the client or from the
\* create() of a creator as constructed
HandlesNext == ClientNext \/ CreateNext \/ HandleNext \/ Return

SpecHandles == Init /\ [][HandlesNext]_vars


\* the programs that wait for a job: an instance handle, the actions that
\* start a job, and the wait on the future they return
FuturesNext ==
    \/ get_instance
    \/ reprovision
    \/ deprovision
    \/ restart_dss
    \/ FMInstance_delete
    \/ FMFuture_wait
    \/ FMFuture_poll
    \/ Return

SpecFutures == DefaultTenant /\ [][FuturesNext]_vars
----------------------------------------------------------------------------
(* Properties                                                              *)

\* the answer to the last request of the call made last
LastResponse == last.resps[Len(last.resps)]

\* the call made last got an error status for its last request
Refused == Len(last.resps) > 0 /\ raise_for_status(LastResponse)

\* res is not a success: an error status, or no response at all
Failed(res) == res.status = 0 \/ raise_for_status(res)

\* the path under the tenant of the resource the handle stands for
HandlePath ==
    IF handle.cls \in InstanceClasses THEN "/instances/" \o Str(handle.id)
    ELSE "/instance-settings-templates/" \o Str(handle.id)

\* the URL of path under the tenant the client was constructed with
TenantUrl(path) == ctor.host \o "/api/public/tenants/" \o ctor.tenant_id \o path

\* C1: save() of an instance or template handle, when both requests
\* succeed, has issued a PUT carrying the snapshot the handle held, then a
\* GET of the same resource, and the handle's snapshot is the decoded body
\* of the GET response
C1_SavePutsThenGets ==
    (last.op = "save" /\ last.exc = "none") =>
        /\ Len(last.reqs) = 2
        /\ last.reqs[1] = [method |-> "PUT", url |-> TenantUrl(HandlePath),
                           data |-> json_dumps(last.pre)]
        /\ last.reqs[2] = [method |-> "GET", url |-> TenantUrl(HandlePath), data |-> <<>>]
        /\ handle.data = json(last.resps[2].body)

\* a save() that returned and left a snapshot other than the one it PUT
C1_Witness ==
    /\ last.op = "save"
    /\ last.exc = "none"
    /\ handle.cls \in InstanceClasses
    /\ handle.data # last.pre
    /\ handle.data = json(DocT1)

SingleRequestOps == {"reprovision", "deprovision", "restart_dss", "delete"}
SavingOps == {"set_automated_snapshots", "set_custom_certificate", "set_elastic_ip",
              "add_setup_action"}

\* C2 as stated: every action method of a handle issues exactly one
\* request per call
C2_ExactlyOneRequest ==
    last.op \in (SingleRequestOps \cup SavingOps) => Len(last.reqs) = 1

\* the snapshot the call found lets the method reach its save()
ReachesSave ==
    /\ handle.client = "FMClient"
    /\ last.pre.type = "dict"
    /\ last.op = "add_setup_action" =>
         /\ DictHas(last.pre.val, "setupActions")
         /\ DictGet(last.pre.val, "setupActions")[1] = "list"

\* C2: reprovision, deprovision, restart_dss and delete issue at most one
\* request per call, and exactly one on a handle of the FM client; the
\* set_* methods and add_setup_action issue a PUT and then, if and only if
\* the PUT succeeded, one GET, and nothing else
C2_OneRequestOrPutThenGet ==
    /\ last.op \in SingleRequestOps =>
         /\ Len(last.reqs) <= 1
         /\ handle.client = "FMClient" => Len(last.reqs) = 1
    /\ last.op \in SavingOps =>
         /\ Len(last.reqs) <= 2
         /\ Len(last.reqs) >= 1 => last.reqs[1].method = "PUT"
         /\ Len(last.reqs) = 2 <=> (Len(last.resps) >= 1 /\ ~Failed(last.resps[1]))
         /\ Len(last.reqs) = 2 => last.reqs[2].method = "GET"
         /\ ReachesSave => Len(last.reqs) >= 1

\* a setter of a handle that has made its two requests
C2_Witness ==
    /\ last.op = "set_custom_certificate"
    /\ last.exc = "none"
    /\ Len(last.reqs) = 2

\* C3: an error status with a JSON object that has errorType and message
\* raises a DataikuException whose message contains both values
C3_ErrorTypeAndMessage ==
    Refused =>
        \A ex \in {json(LastResponse.body)} :
            (ex.type = "dict" /\ DictHas(ex.val, "errorType") /\ DictHas(ex.val, "message")) =>
                /\ last.exc = "DataikuException"
                /\ Contains(last.msg, Str(DictGet(ex.val, "errorType")))
                /\ Contains(last.msg, Str(DictGet(ex.val, "message")))

\* the 404 NotFound answer, turned into its exception
C3_Witness ==
    /\ Refused
    /\ LastResponse = [status |-> 404, body |-> ErrNotFound]
    /\ last.exc = "DataikuException"
    /\ last.msg = "NotFound: no such instance"

\* C4: an error status with a body that is not JSON raises a
\* DataikuException whose message contains the text of the response
C4_RawTextInMessage ==
    (Refused /\ ~json(LastResponse.body).ok) =>
        /\ last.exc = "DataikuException"
        /\ Contains(last.msg, text(LastResponse.body))

\* the 500 answer with a plain text, turned into its exception
C4_Witness ==
    /\ Refused
    /\ LastResponse = [status |-> 500, body |-> ErrText]
    /\ last.exc = "DataikuException"
    /\ Contains(last.msg, "internal error")

\* C5 as stated: every error status, whatever the body, raises a
\* DataikuException and no other exception
C5_OnlyDataikuException == Refused => last.exc = "DataikuException"

\* an error status with a JSON array for a body: another exception escapes
C5_Witness ==
    /\ Refused
    /\ LastResponse = [status |-> 400, body |-> ErrArray]
    /\ last.exc = "AttributeError"

\* the builder has had exactly two with_* calls and then a create()
CreatedAfterTwoCalls == last.op = "create" /\ Len(builder.calls) = 2

\* the outcome of call c1 and then call c2 on a builder as constructed
Chain(c1, c2) ==
    [first |-> Apply(c1, builder.init),
     second |-> Apply(c2, Apply(c1, builder.init).data)]

\* both calls of the chain returned
BothSucceed(ch) == ch.first.exc = "none" /\ ch.second.exc = "none"

\* the two calls are of the two setters of the AWS API access mode
AccessModePair(c1, c2) ==
    {c1.m, c2.m} = {"with_default_aws_api_access_mode", "with_keypair_aws_api_access_mode"}

\* C6 as stated: two successful calls of two with_* setters, made in
\* either order, give create() the same request body (read as the same
\* JSON object: the same keys with the same values)
C6_SameBodyEitherOrder ==
    CreatedAfterTwoCalls =>
        \A ch \in {Chain(builder.calls[1], builder.calls[2])},
           sw \in {Chain(builder.calls[2], builder.calls[1])} :
            (BothSucceed(ch) /\ BothSucceed(sw) /\ builder.calls[1].m # builder.calls[2].m) =>
                /\ last.reqs[1].data = json_dumps(Doc(ch.second.data))
                /\ AsMap(ch.second.data) = AsMap(sw.second.data)

\* C6: two successful calls of two different setters, other than the pair
\* with_default_aws_api_access_mode / with_keypair_aws_api_access_mode, give
\* create() in either order a body that is the JSON object of the same
\* members: the same keys with the same values; of that pair, the call made
\* last decides dataikuAwsAPIAccessMode
C6_SameMembersEitherOrder ==
    CreatedAfterTwoCalls =>
        \A ch \in {Chain(builder.calls[1], builder.calls[2])},
           sw \in {Chain(builder.calls[2], builder.calls[1])} :
            (BothSucceed(ch) /\ BothSucceed(sw) /\ builder.calls[1].m # builder.calls[2].m) =>
                /\ last.reqs[1].data = json_dumps(Doc(ch.second.data))
                /\ ~AccessModePair(builder.calls[1], builder.calls[2]) =>
                      AsMap(ch.second.data) = AsMap(sw.second.data)
                /\ AccessModePair(builder.calls[1], builder.calls[2]) =>
                      DictGet(ch.second.data, "dataikuAwsAPIAccessMode") =
                        (IF builder.calls[2].m = "with_default_aws_api_access_mode"
                         THEN PyStr("NONE") ELSE PyStr("KEYPAIR"))

\* two setters whose bodies differ in the order of their members only
C6_Witness ==
    /\ CreatedAfterTwoCalls
    /\ builder.calls[1].m = "with_cloud_tags"
    /\ builder.calls[2].m = "with_fm_tags"
    /\ \E sw \in {Chain(builder.calls[2], builder.calls[1])} :
         /\ BothSucceed(sw)
         /\ last.reqs[1].data # json_dumps(Doc(sw.second.data))
         /\ AsMap(builder.data) = AsMap(sw.second.data)

\* C7 as stated: create() of every builder issues one POST of the
\* accumulated dict and returns a handle made of the FM client and the
\* decoded response, so that save() and delete() on a handle send requests
C7_CreateReturnsClientHandle ==
    /\ last.op = "create" =>
         /\ Len(last.reqs) = 1
         /\ last.reqs[1].method = "POST"
         /\ last.reqs[1].data = json_dumps(last.pre)
    /\ (last.op = "create" /\ last.exc = "none") =>
         /\ handle.client = "FMClient"
         /\ handle.data = json(last.resps[1].body)
    /\ last.op \in {"save", "delete"} => Len(last.reqs) >= 1

\* save() or delete() on the handle a template creator returned
C7_Witness ==
    /\ last.op \in {"save", "delete"}
    /\ handle.cls = "FMInstanceSettingsTemplate"
    /\ handle.client = "Creator"
    /\ last.exc = "AttributeError"
    /\ Len(last.reqs) = 0

\* the answer is a success whose body is a list of objects that all have
\* an id
ListOfInstances(res) ==
    /\ ~Failed(res)
    /\ json(res.body).type = "list"
    /\ \A i \in DOMAIN json(res.body).val : DictHas(json(res.body).val[i], "id")

\* C8 as stated: list_instances() issues one GET of /instances under the
\* tenant and returns, for a list of n objects with ids, n handles, the
\* i-th holding the i-th object and its id
C8_ListReturnsHandles ==
    last.op = "list_instances" =>
        /\ Len(last.reqs) = 1
        /\ last.reqs[1] = [method |-> "GET", url |-> TenantUrl("/instances"), data |-> <<>>]
        /\ ListOfInstances(last.resps[1]) =>
             \A items \in {json(last.resps[1].body).val} :
                /\ last.exc = "none"
                /\ Len(last.rets) = Len(items)
                /\ \A i \in DOMAIN items :
                     /\ last.rets[i].data = Doc(items[i])
                     /\ last.rets[i].id = DictGet(items[i], "id")

\* a list of two instances with ids, and the exception it ends in
C8_Witness ==
    /\ last.op = "list_instances"
    /\ last.resps[1] = [status |-> 200, body |-> DocList2]
    /\ last.exc = "TypeError"

\* the paths the call made last may ask for
RequestPaths ==
    CASE last.op = "get_instance" -> {"/instances/" \o id : id \in InstanceIds}
      [] last.op = "get_instance_template" ->
            {"/instance-settings-templates/" \o id : id \in TemplateIds}
      [] last.op = "list_instances" -> {"/instances"}
      [] last.op = "create" ->
            IF builder.cls \in InstanceCreators THEN {"/instances"}
            ELSE {"/instance-settings-templates"}
      [] last.op \in {"reprovision", "deprovision"} -> {HandlePath \o "/actions/" \o last.op}
      [] last.op = "delete" /\ handle.cls \in InstanceClasses ->
            {HandlePath \o "/actions/delete"}
      [] last.op = "restart_dss" -> {HandlePath \o "/actions/restart-dss"}
      [] last.op = "get_status" -> {HandlePath \o "/status"}
      [] OTHER -> {HandlePath}

\* C9: every request goes to {host}/api/public/tenants/{tenantId}{path},
\* tenantId being the tenant id the client was constructed with, which the
\* client still holds after any sequence of calls
C9_TenantScopedUrl ==
    /\ client.exc = "none" => (client.tenant_id = ctor.tenant_id /\ client.host = ctor.host)
    /\ \A i \in DOMAIN last.reqs :
         \E path \in RequestPaths : last.reqs[i].url = TenantUrl(path)

\* a save() on a handle of a client of another tenant than the default
C9_Witness ==
    /\ ctor.tenant_id = "t2"
    /\ last.op = "save"
    /\ Len(last.reqs) = 2
    /\ last.reqs[2].url = "https://fm/api/public/tenants/t2/instances/r1"

\* C10: every create(), a second one on the same builder included, issues
\* one POST of the accumulated dict and leaves the dict as it was; a create()
\* that follows another with no with_* call in between sends the same
\* request again
C10_CreateTwice ==
    last.op = "create" =>
        /\ Len(last.reqs) = 1
        /\ last.reqs[1].method = "POST"
        /\ last.reqs[1].data = json_dumps(last.pre)
        /\ builder.data = last.pre.val
        /\ builder.posts = <<[req |-> last.reqs[1], calls |-> Len(builder.calls)]>>
        /\ (last.prev # <<>> /\ last.prev[1].calls = Len(builder.calls)) =>
              last.prev[1].req = last.reqs[1]

\* a second create() in a row on a builder that has had a with_* call
C10_Witness ==
    /\ last.op = "create"
    /\ last.prev # <<>>
    /\ last.prev[1].calls = Len(builder.calls)
    /\ Len(builder.calls) > 0
    /\ builder.data # builder.init
    /\ last.prev[1].req = last.reqs[1]


\* the job states after which a wait goes on
Unfinished == {"PENDING", "RUNNING"}

\* C11: the wait on a future an action returned goes on while the job is
\* PENDING or RUNNING and returns only once it has seen a terminal state;
\* on SUCCESS it returns the payload of that answer and raises nothing
C11_WaitPollsUntilTerminal ==
    (last.op = "wait" /\ Len(last.resps) > 0) =>
        /\ \A i \in 1..(Len(last.resps) - 1) : last.resps[i].job \in Unfinished
        /\ LastResponse.job \in Unfinished => last.ret = "polling"
        /\ last.ret = "payload" => LastResponse.job \in {"SUCCESS", "FAILURE"}
        /\ LastResponse.job = "SUCCESS" =>
             /\ last.exc = "none"
             /\ last.ret = "payload"
             /\ last.result = json(LastResponse.body)

\* a wait that saw the job PENDING, then RUNNING, then SUCCESS with the
\* payload {"result": "ok"}
C11_Witness ==
    /\ last.op = "wait"
    /\ Len(last.resps) = 3
    /\ last.resps[1].job = "PENDING"
    /\ last.resps[2].job = "RUNNING"
    /\ last.resps[3].job = "SUCCESS"
    /\ last.ret = "payload"
    /\ last.result = Doc(<<<<"result", PyStr("ok")>>>>)

\* the exception of the client for an HTTP error
HttpErrorKind ==
    Answer([method |-> "GET", url |-> "", data |-> <<>>],
           [status |-> 404, body |-> ErrNotFound]).exc

LastCall == builder.calls[Len(builder.calls)]
SetterCalled(m) == Len(builder.calls) > 0 /\ LastCall.m = m /\ last.op = m

\* C13 as stated: with_data_volume_options called without
\* data_volume_encryption succeeds, records the options it is given and
\* returns the builder
C13_EncryptionOptional ==
    (SetterCalled("with_data_volume_options") /\ LastCall.args[5] = PyNone) =>
        /\ last.exc = "none"
        /\ last.ret = "self"
        /\ DictHas(builder.data, "dataVolumeSizeGB")
        /\ DictGet(builder.data, "dataVolumeSizeGB") = LastCall.args[2]

\* with_data_volume_options(data_volume_size=50) raised TypeError and left
\* the dict without the size
C13_Witness ==
    /\ SetterCalled("with_data_volume_options")
    /\ LastCall.args[5] = PyNone
    /\ LastCall.args[2] = PyInt("50")
    /\ last.exc = "TypeError"
    /\ ~DictHas(builder.data, "dataVolumeSizeGB")

\* the node types with_dss_node_type accepts
ValidNodeTypes == {PyStr("design"), PyStr("automation"), PyStr("deployer")}

\* C14: the dssNodeType of an instance creator is always one of "design",
\* "automation", "deployer"; it is "design" as long as no with_dss_node_type
\* call has succeeded, and with_dss_node_type raises ValueError for any other
\* value
C14_NodeTypeValid ==
    builder.cls \in InstanceCreators =>
        /\ DictHas(builder.data, "dssNodeType")
        /\ DictGet(builder.data, "dssNodeType") \in ValidNodeTypes
        /\ (\A i \in 1..Len(builder.calls) :
               builder.calls[i].m = "with_dss_node_type" =>
                   builder.calls[i].args[1] \notin ValidNodeTypes) =>
             DictGet(builder.data, "dssNodeType") = PyStr("design")
        /\ (SetterCalled("with_dss_node_type") /\ LastCall.args[1] \notin ValidNodeTypes) =>
             last.exc = "ValueError" /\ last.ret = "raise"
        /\ (SetterCalled("with_dss_node_type") /\ LastCall.args[1] \in ValidNodeTypes) =>
             /\ last.exc = "none"
             /\ DictGet(builder.data, "dssNodeType") = LastCall.args[1]

\* with_dss_node_type("bogus") raised after with_dss_node_type("automation")
\* had set the node type
C14_Witness ==
    /\ builder.cls \in InstanceCreators
    /\ Len(builder.calls) = 2
    /\ builder.calls[1] = Call("with_dss_node_type", <<PyStr("automation")>>)
    /\ SetterCalled("with_dss_node_type")
    /\ LastCall.args[1] = PyStr("bogus")
    /\ last.exc = "ValueError"
    /\ DictGet(builder.data, "dssNodeType") = PyStr("automation")

\* the arguments the client was constructed with are accepted
AcceptedArguments ==
    /\ ctor.cloud \in {"AWS", "Azure"}
    /\ ctor.api_key_id # "None"
    /\ ctor.api_key_secret # "None"

\* C15: the construction of FMClient raises ValueError unless cloud is "AWS"
\* or "Azure" and both parts of the API key are given; on a client that was
\* constructed, new_instance_creator and new_instance_template_creator
\* return the builder of the client's cloud, never None
C15_CloudDecidesBuilder ==
    /\ client.exc = (IF AcceptedArguments THEN "none" ELSE "ValueError")
    /\ client.exc = "none" => client.cloud = ctor.cloud
    /\ last.op = "new_instance_creator" =>
         /\ last.ret = (IF ctor.cloud = "AWS" THEN "FMAWSInstanceCreator"
                        ELSE "FMAzureInstanceCreator")
         /\ ctor.cloud \in {"AWS", "Azure"}
         /\ builder.cls = last.ret
    /\ last.op = "new_instance_template_creator" =>
         /\ last.ret = (IF ctor.cloud = "AWS" THEN "FMAWSInstanceSettingsTemplateCreator"
                        ELSE "FMAzureInstanceSettingsTemplateCreator")
         /\ ctor.cloud \in {"AWS", "Azure"}
         /\ builder.cls = last.ret

\* new_instance_template_creator on an Azure client returned the Azure
\* builder
C15_Witness ==
    /\ last.op = "new_instance_template_creator"
    /\ ctor.cloud = "Azure"
    /\ last.ret = "FMAzureInstanceSettingsTemplateCreator"
    /\ builder.cls = "FMAzureInstanceSettingsTemplateCreator"

\* the storage modes with_keypair_aws_api_access_mode accepts
StorageModes == {PyStr("NONE"), PyStr("INLINE_ENCRYPTED"), PyStr("AWS_SECRETS_MANAGER")}

\* the last call is with_keypair_aws_api_access_mode and has to raise
\* ValueError: a storage mode outside the three, INLINE_ENCRYPTED without
\* the secret, AWS_SECRETS_MANAGER without the name of the secret
KeypairRejected ==
    \/ LastCall.args[2] \notin StorageModes
    \/ LastCall.args[2] = PyStr("INLINE_ENCRYPTED") /\ LastCall.args[3] = PyNone
    \/ LastCall.args[2] = PyStr("AWS_SECRETS_MANAGER") /\ LastCall.args[4] = PyNone

\* the access mode and the storage mode the last call has set
KeypairModeSet ==
    /\ DictHas(builder.data, "dataikuAwsAPIAccessMode")
    /\ DictGet(builder.data, "dataikuAwsAPIAccessMode") = PyStr("KEYPAIR")
    /\ DictHas(builder.data, "dataikuAwsKeypairStorageMode")
    /\ DictGet(builder.data, "dataikuAwsKeypairStorageMode") = LastCall.args[2]

\* the access key id the last call has set
KeypairKeyIdSet ==
    /\ DictHas(builder.data, "dataikuAwsAccessKeyId")
    /\ DictGet(builder.data, "dataikuAwsAccessKeyId") = LastCall.args[1]

\* C16 as stated: a successful with_keypair_aws_api_access_mode, whatever
\* the accepted storage mode, leaves the access mode KEYPAIR, the storage
\* mode and the access key id of the call in the dict; the three misuses
\* raise ValueError
C16_KeypairRecordsKeyId ==
    SetterCalled("with_keypair_aws_api_access_mode") =>
        /\ KeypairRejected => last.exc = "ValueError"
        /\ ~KeypairRejected => last.exc = "none" /\ KeypairModeSet /\ KeypairKeyIdSet

\* C16, amended: the access key id is recorded for the storage modes
\* INLINE_ENCRYPTED and AWS_SECRETS_MANAGER; with the storage mode "NONE" the
\* call returns once the two modes are set and leaves dataikuAwsAccessKeyId
\* as it found it
C16_KeypairRecordsModes ==
    SetterCalled("with_keypair_aws_api_access_mode") =>
        /\ KeypairRejected => last.exc = "ValueError"
        /\ ~KeypairRejected => last.exc = "none" /\ KeypairModeSet
        /\ (~KeypairRejected /\ LastCall.args[2] # PyStr("NONE")) => KeypairKeyIdSet
        /\ (~KeypairRejected /\ LastCall.args[2] = PyStr("NONE")) =>
             /\ DictHas(builder.data, "dataikuAwsAccessKeyId")
                  = DictHas(last.pre.val, "dataikuAwsAccessKeyId")
             /\ DictHas(builder.data, "dataikuAwsAccessKeyId") =>
                  DictGet(builder.data, "dataikuAwsAccessKeyId")
                    = DictGet(last.pre.val, "dataikuAwsAccessKeyId")

\* a successful call with the storage mode AWS_SECRETS_MANAGER after one
\* that AWS_SECRETS_MANAGER without a secret name made raise
C16_Witness ==
    /\ SetterCalled("with_keypair_aws_api_access_mode")
    /\ Len(builder.calls) = 2
    /\ builder.calls[1].m = "with_keypair_aws_api_access_mode"
    /\ builder.calls[1].args[2] = PyStr("AWS_SECRETS_MANAGER")
    /\ builder.calls[1].args[4] = PyNone
    /\ LastCall.args[2] = PyStr("AWS_SECRETS_MANAGER")
    /\ last.exc = "none"
    /\ KeypairModeSet
    /\ KeypairKeyIdSet
    /\ LastCall.args[1] = PyStr("AK1")

\* the keys of the dict the setter m is responsible for
OwnKeys(m) ==
    CASE m = "with_dss_node_type" -> {"dssNodeType"}
      [] m = "with_cloud_instance_type" -> {"cloudInstanceType"}
      [] m = "with_data_volume_options" ->
            {"dataVolumeType", "dataVolumeSizeGB", "dataVolumeSizeMaxGB", "dataVolumeIOPS",
             "dataVolumeEncryption", "dataVolumeEncryptionKey"}
      [] m = "with_cloud_tags" -> {"cloudTags"}
      [] m = "with_fm_tags" -> {"fmTags"}
      [] m = "with_aws_root_volume_options" ->
            {"awsRootVolumeSizeGB", "awsRootVolumeType", "awsRootVolumeIOPS"}
      [] m = "with_setup_actions" -> {"setupActions"}
      [] m = "with_license" -> {"license"}
      [] m = "with_aws_keypair" -> {"awsKeyPairName"}
      [] m = "with_startup_instance_profile" -> {"startupInstanceProfileArn"}
      [] m = "with_runtime_instance_profile" -> {"runtimeInstanceProfileArn"}
      [] m = "with_restrict_aws_metadata_server_access" -> {"restrictAwsMetadataServerAccess"}
      [] m = "with_default_aws_api_access_mode" -> {"dataikuAwsAPIAccessMode"}
      [] m = "with_keypair_aws_api_access_mode" ->
            {"dataikuAwsAPIAccessMode", "dataikuAwsKeypairStorageMode",
             "dataikuAwsAccessKeyId", "dataikuAwsSecretAccessKey",
             "dataikuAwsSecretAccessKeyAwsSecretName", "awsSecretsManagerRegion"}
      [] m = "with_ssh_key" -> {"azureSshKey"}
      [] m = "with_startup_managed_identity" -> {"startupManagedIdentity"}
      [] m = "with_runtime_managed_identity" -> {"runtimeManagedIdentity"}
      [] OTHER -> {}

\* C17: a with_* setter that returns, returns the builder it was called on,
\* and a with_* call changes the keys of its setter only: every other key of
\* the dict, label and the ids of the constructor included, keeps its value,
\* and no key of another setter appears
C17_SetterFrame ==
    (Len(builder.calls) > 0 /\ SetterCalled(LastCall.m)) =>
        /\ last.exc = "none" => last.ret = "self"
        /\ \A k \in DictKeys(last.pre.val) \ OwnKeys(LastCall.m) :
             /\ DictHas(builder.data, k)
             /\ DictGet(builder.data, k) = DictGet(last.pre.val, k)
        /\ DictKeys(builder.data) \ DictKeys(last.pre.val) \subseteq OwnKeys(LastCall.m)
        /\ last.exc = "none" => DictKeys(builder.data) \cap OwnKeys(LastCall.m) # {}

\* with_cloud_instance_type returned the builder, with the data volume
\* options of the call before it and the label of the constructor in place
C17_Witness ==
    /\ SetterCalled("with_cloud_instance_type")
    /\ Len(builder.calls) = 2
    /\ builder.calls[1].m = "with_data_volume_options"
    /\ last.ret = "self"
    /\ DictHas(builder.data, "dataVolumeEncryption")
    /\ DictHas(builder.data, "cloudInstanceType")
    /\ DictGet(builder.data, "label") = PyStr("L1")
    /\ DictGet(builder.data, "imageId") = PyStr("dss-9.0.3")

\* the dict after the call whose outcome on d is r, were a raising call
\* without effect
Kept(r, d) == IF r.exc = "none" THEN r.data ELSE d

\* the dict d after the calls, were the raising ones never made
RECURSIVE WithoutRaising(_, _)
WithoutRaising(calls, d) ==
    IF Len(calls) = 0 THEN d
    ELSE WithoutRaising(Tail(calls), Kept(Apply(Head(calls), d), d))

\* C18 as stated: a with_* setter that raises leaves the dict as it found
\* it, and create() sends the body it would send had the raising calls never
\* been made
C18_RaisingSetterNoEffect ==
    /\ (Len(builder.calls) > 0 /\ SetterCalled(LastCall.m) /\ last.exc # "none") =>
         builder.data = last.pre.val
    /\ last.op = "create" =>
         last.reqs[1].data = json_dumps(Doc(WithoutRaising(builder.calls, builder.init)))

\* create() after with_keypair_aws_api_access_mode("AK2", "INLINE_ENCRYPTED")
\* raised ValueError: the body has the access mode, the storage mode and the
\* key id of the call that raised
C18_Witness ==
    /\ last.op = "create"
    /\ Len(builder.calls) = 1
    /\ LastCall = Call("with_keypair_aws_api_access_mode",
                       <<PyStr("AK2"), PyStr("INLINE_ENCRYPTED"), PyNone, PyNone, PyNone>>)
    /\ Apply(LastCall, builder.init).exc = "ValueError"
    /\ last.reqs[1].data # json_dumps(Doc(builder.init))
    /\ \E body \in {json(last.reqs[1].data)} :
         /\ DictGet(body.val, "dataikuAwsAPIAccessMode") = PyStr("KEYPAIR")
         /\ DictGet(body.val, "dataikuAwsAccessKeyId") = PyStr("AK2")

\* the call made last is a set_* or add_setup_action whose PUT failed
PutFailed ==
    /\ last.op \in SavingOps
    /\ Len(last.reqs) > 0
    /\ last.reqs[1].method = "PUT"
    /\ Failed(last.resps[1])

\* the snapshot has the values the call made last was to set
NewValuesKept ==
    CASE last.op = "set_custom_certificate" ->
            /\ DictHas(handle.data.val, "sslCertificatePEM")
            /\ DictGet(handle.data.val, "sslCertificatePEM") = PyStr("PEM")
      [] last.op = "set_automated_snapshots" ->
            /\ DictHas(handle.data.val, "automatedSnapshotPeriod")
            /\ DictGet(handle.data.val, "enableAutomatedSnapshot") = PyTrue
            /\ DictGet(handle.data.val, "automatedSnapshotPeriod") = PyInt("24")
            /\ DictGet(handle.data.val, "automatedSnapshotRetention") = PyInt("0")
      [] last.op = "set_elastic_ip" ->
            \/ /\ handle.cls = "FMAWSInstance"
               /\ DictHas(handle.data.val, "awsElasticIPAllocationId")
               /\ DictGet(handle.data.val, "awsAssignElasticIP") = PyTrue
            \/ /\ handle.cls = "FMAzureInstance"
               /\ DictHas(handle.data.val, "azurePublicIPId")
               /\ DictGet(handle.data.val, "azureAssignElasticIP") = PyTrue
      [] last.op = "add_setup_action" ->
            Len(DictGet(handle.data.val, "setupActions"))
              = Len(DictGet(last.pre.val, "setupActions")) + 1
      [] OTHER -> FALSE

\* C19: when the PUT of the save of a set_* or add_setup_action call fails,
\* the call raises, no GET follows, and the handle's snapshot is the one that
\* was PUT, with the new values, not the one the call found
C19_FailedPutKeepsLocal ==
    PutFailed =>
        /\ last.exc # "none"
        /\ last.ret = "raise"
        /\ Len(last.reqs) = 1
        /\ handle.data.type = "dict"
        /\ json_dumps(handle.data) = last.reqs[1].data
        /\ NewValuesKept

\* set_custom_certificate whose PUT was refused: the certificate is in the
\* snapshot, which the snapshot found did not have
C19_Witness ==
    /\ PutFailed
    /\ last.op = "set_custom_certificate"
    /\ last.resps[1].status = 404
    /\ last.exc = "DataikuException"
    /\ ~DictHas(last.pre.val, "sslCertificatePEM")
    /\ DictHas(handle.data.val, "sslCertificatePEM")
    /\ handle.data # last.pre

\* the keys with_keypair_aws_api_access_mode writes besides the access mode
KeypairKeys ==
    {"dataikuAwsKeypairStorageMode", "dataikuAwsAccessKeyId", "dataikuAwsSecretAccessKey",
     "dataikuAwsSecretAccessKeyAwsSecretName", "awsSecretsManagerRegion"}

\* the dict d has the key k with the value v
Has(d, k, v) == DictHas(d, k) /\ DictGet(d, k) = v

\* C20 as stated: the dict of an AWS template creator describes the access
\* mode selected last only: keypair keys are there only under the access
\* mode "KEYPAIR", and of the secret keys only those of the storage mode
C20_OnlyLastAccessMode ==
    builder.cls = "FMAWSInstanceSettingsTemplateCreator" =>
        /\ DictKeys(builder.data) \cap KeypairKeys # {} =>
             Has(builder.data, "dataikuAwsAPIAccessMode", PyStr("KEYPAIR"))
        /\ DictHas(builder.data, "dataikuAwsSecretAccessKey") =>
             Has(builder.data, "dataikuAwsKeypairStorageMode", PyStr("INLINE_ENCRYPTED"))
        /\ (DictHas(builder.data, "dataikuAwsSecretAccessKeyAwsSecretName")
              \/ DictHas(builder.data, "awsSecretsManagerRegion")) =>
             Has(builder.data, "dataikuAwsKeypairStorageMode", PyStr("AWS_SECRETS_MANAGER"))

\* create() after with_keypair_aws_api_access_mode("AK1", "INLINE_ENCRYPTED",
\* "secret") and with_default_aws_api_access_mode(), both returned: the body
\* has the access mode "NONE" and the secret access key
C20_Witness ==
    /\ builder.cls = "FMAWSInstanceSettingsTemplateCreator"
    /\ CreatedAfterTwoCalls
    /\ builder.calls[1].m = "with_keypair_aws_api_access_mode"
    /\ builder.calls[2].m = "with_default_aws_api_access_mode"
    /\ BothSucceed(Chain(builder.calls[1], builder.calls[2]))
    /\ \E body \in {json(last.reqs[1].data)} :
         /\ Has(body.val, "dataikuAwsAPIAccessMode", PyStr("NONE"))
         /\ Has(body.val, "dataikuAwsSecretAccessKey", PyStr("secret"))
         /\ Has(body.val, "dataikuAwsKeypairStorageMode", PyStr("INLINE_ENCRYPTED"))

=============================================================================
